---- MODULE Spec2Model ----
(***************************************************************************)
(* Model of the GraphQL operation-to-TypeScript translator and of the      *)
(* subscription webhook patchers of                                        *)
(* src/commands/functions/functions-create.js (lines 652-1106).            *)
(*                                                                         *)
(* JavaScript values are represented as follows.                           *)
(*   - an optional value (x | undefined) is a sequence of length 0 or 1:   *)
(*     None is undefined, Some(x) is x;                                    *)
(*   - an optional string is a string, UNDEF standing for undefined;       *)
(*   - a GraphQL type (a graphql-js GraphQLType object, or a TypeNode of   *)
(*     the AST) is the sequence of its wrappers, outermost first, followed *)
(*     by the name of its named type: [Int!]! is <<"!", "[]", "!", "Int">>;*)
(*     the empty sequence is undefined;                                    *)
(*   - a thrown exception is the value Throw, which every caller passes on.*)
(***************************************************************************)
EXTENDS Integers, Sequences, FiniteSets, TLC

VARIABLES
  schema,               \* the schema the calls are made with, by name (GraphQLSchema)
  fragmentDefinitions,  \* the caller-supplied mapping fragment name -> definition
  selHeap,              \* the top-level selection objects (AST nodes), by reference
  defHeap,              \* the definition objects (AST nodes), by reference
  input,                \* reference of the definition the caller passes
  history,              \* the patchers through which the input was obtained
  before,               \* what the caller's arguments were when the last call began
  result                \* what the last call returned

vars == <<schema, fragmentDefinitions, selHeap, defHeap, input, history, before, result>>

-----------------------------------------------------------------------------
(* Bounds of the model *)

MaxSel == 2       \* selections in a selection set
MaxVars == 2      \* variable declarations of an operation
MaxNames == 2     \* length of a variableNames list
MaxWrap == 4      \* list / non-null wrappers around a named type
MaxPatches == 2   \* patcher calls made one after the other on a document

-----------------------------------------------------------------------------
(* JavaScript values *)

None == <<>>
Some(x) == <<x>>
UNDEF == "#undefined"
Throw == "#TypeError"

Range(s) == {s[i] : i \in 1..Len(s)}

RECURSIVE SeqsUpTo(_, _)
SeqsUpTo(S, n) ==
  IF n = 0 THEN {<<>>}
  ELSE LET shorter == SeqsUpTo(S, n - 1)
       IN shorter \cup {Append(s, x) : s \in {t \in shorter : Len(t) = n - 1}, x \in S}

RECURSIVE Join(_, _)
\* Array.prototype.join
Join(strs, sep) ==
  IF Len(strs) = 0 THEN ""
  ELSE IF Len(strs) = 1 THEN strs[1]
  ELSE strs[1] \o sep \o Join(Tail(strs), sep)

\* Array.prototype.map
Map(s, f(_)) == [i \in 1..Len(s) |-> f(s[i])]

-----------------------------------------------------------------------------
(* graphql-js: types *)

isListType(t) == t # <<>> /\ t[1] = "[]"
isNonNullType(t) == t # <<>> /\ t[1] = "!"
isWrappingType(t) == isListType(t) \/ isNonNullType(t)
ofType(t) == Tail(t)

RECURSIVE getNamedType(_)
getNamedType(t) ==
  IF t = <<>> THEN <<>>
  ELSE IF isWrappingType(t) THEN getNamedType(ofType(t))
  ELSE t

\* the definition of a named type in the schema, if the schema has it
TypeDef(sch, name) ==
  IF name \in DOMAIN sch.types THEN Some(sch.types[name]) ELSE None

KindOf(sch, t) ==
  LET n == getNamedType(t)
  IN IF n = <<>> \/ TypeDef(sch, n[1]) = None THEN UNDEF
     ELSE TypeDef(sch, n[1])[1].kind

isObjectType(sch, t) == ~isWrappingType(t) /\ KindOf(sch, t) = "OBJECT"
isInputObjectType(sch, t) == ~isWrappingType(t) /\ KindOf(sch, t) = "INPUT_OBJECT"
isInterfaceType(sch, t) == ~isWrappingType(t) /\ KindOf(sch, t) = "INTERFACE"
isUnionType(sch, t) == ~isWrappingType(t) /\ KindOf(sch, t) = "UNION"
isEnumType(sch, t) == ~isWrappingType(t) /\ KindOf(sch, t) = "ENUM"

\* type.getFields(): the fields in declared order; only three kinds have it
HasGetFields(sch, t) == KindOf(sch, t) \in {"OBJECT", "INTERFACE", "INPUT_OBJECT"}
getFields(sch, t) == TypeDef(sch, t[1])[1].fields
getValues(sch, t) == TypeDef(sch, t[1])[1].values

\* getFields()[name]
FieldNamed(fields, name) ==
  LET hits == SelectSeq(fields, LAMBDA f : f.name = name)
  IN IF hits = <<>> THEN None ELSE Some(hits[1])

RECURSIVE print(_)
\* print of a TypeNode
print(t) ==
  IF t = <<>> THEN ""
  ELSE IF t[1] = "[]" THEN "[" \o print(Tail(t)) \o "]"
  ELSE IF t[1] = "!" THEN print(Tail(t)) \o "!"
  ELSE t[1]

\* the index of the "]" that closes the "[" at the head of s (0 if none)
RECURSIVE ClosingBracket(_, _, _)
ClosingBracket(s, i, depth) ==
  IF i > Len(s) THEN 0
  ELSE LET c == SubSeq(s, i, i)
       IN IF c = "[" THEN ClosingBracket(s, i + 1, depth + 1)
          ELSE IF c = "]" THEN (IF depth = 1 THEN i ELSE ClosingBracket(s, i + 1, depth - 1))
          ELSE ClosingBracket(s, i + 1, depth)

RECURSIVE parseType(_)
\* parseType of the text of a type reference: Name | [Type] | Type!
parseType(s) ==
  IF Len(s) = 0 THEN <<>>
  ELSE IF SubSeq(s, Len(s), Len(s)) = "!" THEN <<"!">> \o parseType(SubSeq(s, 1, Len(s) - 1))
  ELSE IF SubSeq(s, 1, 1) = "["
    THEN <<"[]">> \o parseType(SubSeq(s, 2, ClosingBracket(s, 1, 0) - 1))
  ELSE <<s>>

\* typeFromAST: undefined when the named type is not in the schema
typeFromAST(sch, node) ==
  LET n == getNamedType(node)
  IN IF n = <<>> \/ TypeDef(sch, n[1]) = None THEN <<>> ELSE node

-----------------------------------------------------------------------------
(* Type Mapper *)

\* the call depth at which the JavaScript engine gives up (RangeError)
StackLimit == 12

scalarMapOfTypeMapper(name) ==
  CASE name = "String" -> "string"
    [] name = "ID" -> "string"
    [] name = "Int" -> "number"
    [] name = "Float" -> "number"
    [] name = "Boolean" -> "boolean"
    [] OTHER -> UNDEF

docComment(description) ==
  IF description = "" THEN "" ELSE "/**\n* " \o description \o "\n*/\n"

typeScriptForGraphQLTypeFieldNoMarker(field, type) ==
  docComment(field.description) \o "\"" \o field.name \o "\"" \o ": " \o type

\* lines 694-702: one entry of an object type
typeScriptForGraphQLTypeField(field, type) ==
  LET nullable == ~isNonNullType(field.type)
  IN docComment(field.description) \o "\"" \o field.name \o "\""
       \o (IF nullable THEN "?" ELSE "") \o ": " \o type

typeScriptForGraphQLTypeListNoWrap(subType) == subType

\* line 690
typeScriptForGraphQLTypeList(subType) == "Array<" \o subType \o ">"

RECURSIVE typeScriptForGraphQLTypeAt(_, _, _)
typeScriptForGraphQLTypeAt(sch, gqlType, depth) ==
  IF depth > StackLimit THEN Throw
  ELSE IF isListType(gqlType) THEN
    LET subType == typeScriptForGraphQLTypeAt(sch, ofType(gqlType), depth + 1)
    IN IF subType = Throw THEN Throw ELSE typeScriptForGraphQLTypeList(subType)
  ELSE IF isObjectType(sch, gqlType) \/ isInputObjectType(sch, gqlType) THEN
    LET fs == getFields(sch, gqlType)
        types == [i \in 1..Len(fs) |-> typeScriptForGraphQLTypeAt(sch, fs[i].type, depth + 1)]
        fields == [i \in 1..Len(fs) |-> typeScriptForGraphQLTypeField(fs[i], types[i])]
    IN IF \E i \in 1..Len(fs) : types[i] = Throw THEN Throw
       ELSE "{" \o Join(fields, ", ") \o "}"
  ELSE IF isWrappingType(gqlType) THEN
    typeScriptForGraphQLTypeAt(sch, ofType(gqlType), depth + 1)
  ELSE IF isEnumType(sch, gqlType) THEN
    LET values == getValues(sch, gqlType)
        enums == [i \in 1..Len(values) |-> "\"" \o values[i] \o "\""]
    IN Join(enums, " | ")
  ELSE
    LET namedType == getNamedType(gqlType)
        basicType == IF namedType = <<>> THEN UNDEF ELSE scalarMapOfTypeMapper(namedType[1])
    IN IF basicType = UNDEF THEN "any" ELSE basicType

typeScriptForGraphQLType(sch, gqlType) == typeScriptForGraphQLTypeAt(sch, gqlType, 0)

-----------------------------------------------------------------------------
(* Variable Signature Builder *)

\* line 730: the filter keeps the declarations whose name is in variableNames
RetainedVariablesUnfiltered(variableNames, variableDefinitions) == variableDefinitions

RetainedVariables(variableNames, variableDefinitions) ==
  SelectSeq(variableDefinitions, LAMBDA varDef : varDef.name \in Range(variableNames))

typeScriptSignatureForOperationVariables(variableNames, sch, operationDefinition) ==
  LET declared == IF operationDefinition.variableDefinitions = None THEN <<>>
                  ELSE operationDefinition.variableDefinitions[1]
      variables == RetainedVariables(variableNames, declared)
      tsType(varDef) ==
        LET printedType == print(varDef.type)
            parsedType == parseType(printedType)
            gqlType == typeFromAST(sch, parsedType)
        IN typeScriptForGraphQLType(sch, gqlType)
      typesObject == [i \in 1..Len(variables) |-> <<variables[i].name, tsType(variables[i])>>]
      typeFields == Join([i \in 1..Len(typesObject) |->
                            "\"" \o typesObject[i][1] \o "\": " \o typesObject[i][2]], ", ")
      types == "{" \o typeFields \o "}"
  IN IF \E i \in 1..Len(typesObject) : typesObject[i][2] = Throw THEN Throw
     ELSE IF types = "" THEN "null" ELSE types

-----------------------------------------------------------------------------
(* AST nodes *)

\* a Field, an InlineFragment or a FragmentSpread; what a kind does not have
\* is undefined
Field(name, alias, arguments, selectionSet) ==
  [kind |-> "Field", name |-> name, alias |-> alias, arguments |-> arguments,
   typeCondition |-> <<>>, selectionSet |-> selectionSet]

InlineFragment(typeCondition, selections) ==
  [kind |-> "InlineFragment", name |-> UNDEF, alias |-> UNDEF, arguments |-> None,
   typeCondition |-> typeCondition, selectionSet |-> Some(selections)]

FragmentSpread(name) ==
  [kind |-> "FragmentSpread", name |-> name, alias |-> UNDEF, arguments |-> None,
   typeCondition |-> <<>>, selectionSet |-> None]

Argument(name, value) == [name |-> name, value |-> value]
Variable(name) == [kind |-> "Variable", name |-> name]
StringValue(text) == [kind |-> "StringValue", name |-> text]

VariableDefinition(name, type) == [name |-> name, type |-> type]

\* an OperationDefinition or a FragmentDefinition; selections holds references
\* into the heap of selection objects
Definition(kind, operation, typeCondition, variableDefinitions, selections) ==
  [kind |-> kind, operation |-> operation, typeCondition |-> typeCondition,
   variableDefinitions |-> variableDefinitions, selections |-> selections]

\* the definition object at reference d with its selection objects read through
DefinitionValue(sels, defs, d) ==
  [defs[d] EXCEPT !.selections =
     IF defs[d].selections = None THEN None
     ELSE Some([i \in 1..Len(defs[d].selections[1]) |-> sels[defs[d].selections[1][i]]])]

-----------------------------------------------------------------------------
(* Subscription Webhook Patcher *)

OK(x) == [threw |-> FALSE, v |-> x]
Thrown == [threw |-> TRUE, v |-> Throw]

\* lines 974-993: a copy of the selection is made, the selection is not written
NewSelectionInPlace(sels, ref, node) ==
  [heap |-> [sels EXCEPT ![ref] = node], ref |-> ref]

NewSelection(sels, ref, node) ==
  [heap |-> Append(sels, node), ref |-> Len(sels) + 1]

AppendedArgumentsFirst(arguments, argName, variableName) ==
  <<Argument(argName, Variable(variableName))>> \o (IF arguments = None THEN <<>> ELSE arguments[1])

\* lines 976-992
AppendedArguments(arguments, argName, variableName) ==
  (IF arguments = None THEN <<>> ELSE arguments[1]) \o <<Argument(argName, Variable(variableName))>>

NeedsArgumentIgnoringSelection(sch, subscriptionType, selection, argName) ==
  LET field == FieldNamed(getFields(sch, subscriptionType), selection.name)[1]
  IN \E i \in 1..Len(field.args) : field.args[i] = argName

NeedsArgumentWhenNoArguments(sch, subscriptionType, selection, argName) ==
  LET field == FieldNamed(getFields(sch, subscriptionType), selection.name)[1]
  IN /\ \E i \in 1..Len(field.args) : field.args[i] = argName
     /\ (selection.arguments = None \/ selection.arguments[1] = <<>>)

\* lines 970-973; the selection names a field of the subscription type
NeedsArgument(sch, subscriptionType, selection, argName) ==
  LET field == FieldNamed(getFields(sch, subscriptionType), selection.name)[1]
      fieldHasArg == \E i \in 1..Len(field.args) : field.args[i] = argName
      selectionHasArg ==
        /\ selection.arguments # None
        /\ \E i \in 1..Len(selection.arguments[1]) : selection.arguments[1][i].name = argName
  IN fieldHasArg /\ ~selectionHasArg

RECURSIVE PatchSelections(_, _, _, _, _, _)
\* lines 968-996: selections.map; the heap after the call and the new array,
\* or the exception of reading `args` of a field the subscription type lacks
PatchSelections(sch, subscriptionType, sels, refs, argName, variableName) ==
  IF refs = <<>> THEN [threw |-> FALSE, heap |-> sels, refs |-> <<>>]
  ELSE
    LET ref == Head(refs)
        selection == sels[ref]
    IN IF selection.kind = "Field"
            /\ FieldNamed(getFields(sch, subscriptionType), selection.name) = None
       THEN [threw |-> TRUE, heap |-> sels, refs |-> <<>>]
       ELSE
         LET first ==
               IF selection.kind # "Field" THEN [heap |-> sels, ref |-> ref]
               ELSE IF NeedsArgument(sch, subscriptionType, selection, argName)
                 THEN NewSelection(sels, ref,
                        [selection EXCEPT !.arguments =
                           Some(AppendedArguments(selection.arguments, argName, variableName))])
               ELSE [heap |-> sels, ref |-> ref]
             rest == PatchSelections(sch, subscriptionType, first.heap, Tail(refs),
                                     argName, variableName)
         IN IF rest.threw THEN [threw |-> TRUE, heap |-> sels, refs |-> <<>>]
            ELSE [threw |-> FALSE, heap |-> rest.heap, refs |-> <<first.ref>> \o rest.refs]

PatchedVariableDefinitionsAlways(variableDefinitions, variableName, typeName) ==
  (IF variableDefinitions = None THEN <<>> ELSE variableDefinitions[1])
     \o <<VariableDefinition(variableName, <<"!", typeName>>)>>

\* lines 997-1024
PatchedVariableDefinitions(variableDefinitions, variableName, typeName) ==
  LET hasWebhookVariableDefinition ==
        /\ variableDefinitions # None
        /\ \E i \in 1..Len(variableDefinitions[1]) : variableDefinitions[1][i].name = variableName
  IN IF hasWebhookVariableDefinition THEN variableDefinitions[1]
     ELSE (IF variableDefinitions = None THEN <<>> ELSE variableDefinitions[1])
            \o <<VariableDefinition(variableName, <<"!", typeName>>)>>

\* the schema's root type for an operation kind, undefined if the schema has none
getSubscriptionType(sch) == sch.subscription
getMutationType(sch) == sch.mutation
getQueryType(sch) == sch.query

IsSubscriptionAny(definition) == TRUE

\* line 961
IsSubscription(definition) == definition.operation = "subscription"

\* the two patchers differ in the three names only
PatchSubscription(sch, sels, defs, d, argName, variableName, typeName) ==
  LET definition == defs[d]
      same == [threw |-> FALSE, sels |-> sels, defs |-> defs, ret |-> d]
  IN IF ~IsSubscription(definition) THEN same
     ELSE IF getSubscriptionType(sch) = <<>> THEN same
     ELSE IF definition.selections = None
       THEN [threw |-> TRUE, sels |-> sels, defs |-> defs, ret |-> d]
     ELSE
       LET new == PatchSelections(sch, getSubscriptionType(sch), sels,
                                  definition.selections[1], argName, variableName)
           variableDefinitions ==
             PatchedVariableDefinitions(definition.variableDefinitions, variableName, typeName)
       IN IF new.threw THEN [threw |-> TRUE, sels |-> sels, defs |-> defs, ret |-> d]
          ELSE [threw |-> FALSE,
                sels |-> new.heap,
                defs |-> Append(defs, [definition EXCEPT
                                         !.variableDefinitions = Some(variableDefinitions),
                                         !.selections = Some(new.refs)]),
                ret |-> Len(defs) + 1]

patchSubscriptionWebhookField(sch, sels, defs, d) ==
  PatchSubscription(sch, sels, defs, d, "webhookUrl", "netligraphWebhookUrl", "String")

patchSubscriptionWebhookSecretField(sch, sels, defs, d) ==
  PatchSubscription(sch, sels, defs, d, "secret", "netligraphWebhookSecret",
                    "OneGraphSubscriptionSecretInput")

-----------------------------------------------------------------------------
(* Selection-Set Shape Builder *)

maximumDepth == 30
errorSigil == -99

RECURSIVE listCountFrom(_, _, _)
\* lines 753-764: the loop, from the state (inspectedType, innerListCount, totalCount)
listCountFrom(inspectedType, innerListCount, totalCount) ==
  IF ~isWrappingType(inspectedType) THEN innerListCount
  ELSE IF totalCount + 1 > maximumDepth THEN errorSigil
  ELSE listCountFrom(ofType(inspectedType),
                     innerListCount + (IF isListType(inspectedType) THEN 1 ELSE 0),
                     totalCount + 1)

listCount(gqlType) == listCountFrom(gqlType, 0, 0)

scalarMapOfShapeBuilder(name) ==
  CASE name = "String" -> "string"
    [] name = "ID" -> "string"
    [] name = "Int" -> "number"
    [] name = "Float" -> "number"
    [] name = "Boolean" -> "boolean"
    [] name = "GitHubGitObjectID" -> "string"
    [] OTHER -> UNDEF

\* what helper and innerHelper return: an entry [displayedName, {type, description}],
\* undefined, null, or an array of such results
EntryItem(name, value) == [tag |-> "entry", name |-> name, value |-> value]
UndefinedItem == [tag |-> "undefined"]
NullItem == [tag |-> "null"]
ArrayItem(items) == [tag |-> "array", items |-> items]

\* the types of a shape: a primitive tag, the values of an enum (a Set), a
\* one-element array, an object
PrimType(tag) == [prim |-> tag]
EnumType(values) == [enum |-> values]
ListOf(type) == [list |-> type]
ObjType(entries) == [obj |-> entries]

RECURSIVE ArrayToString(_)
RECURSIVE ItemToString(_)
\* String(x) of a result, as Object.fromEntries makes a key of it
ItemToString(item) ==
  CASE item.tag = "undefined" -> "undefined"
    [] item.tag = "null" -> "null"
    [] item.tag = "entry" -> item.name \o ",[object Object]"
    [] item.tag = "array" -> ArrayToString(item.items)

ArrayToString(items) ==
  Join([i \in 1..Len(items) |->
          IF items[i].tag \in {"undefined", "null"} THEN "" ELSE ItemToString(items[i])], ",")

\* the [key, value] pair Object.fromEntries reads from an element that is an object
KeyValue(item) ==
  IF item.tag = "entry" THEN [name |-> item.name, value |-> item.value]
  ELSE [name |-> IF Len(item.items) >= 1 THEN ItemToString(item.items[1]) ELSE "undefined",
        value |-> [raw |-> IF Len(item.items) >= 2 THEN item.items[2] ELSE UndefinedItem]]

SetKeyFirstWins(entries, kv) ==
  IF \E i \in 1..Len(entries) : entries[i].name = kv.name THEN entries ELSE Append(entries, kv)

\* obj[key] = value on an object that keeps the order in which its keys were set
SetKey(entries, kv) ==
  IF \E i \in 1..Len(entries) : entries[i].name = kv.name
  THEN [i \in 1..Len(entries) |-> IF entries[i].name = kv.name THEN kv ELSE entries[i]]
  ELSE Append(entries, kv)

RECURSIVE FromEntriesInto(_, _)
FromEntriesInto(entries, items) ==
  IF items = <<>> THEN entries
  ELSE FromEntriesInto(SetKey(entries, KeyValue(Head(items))), Tail(items))

\* Object.fromEntries: a TypeError on an element that is not an object
ObjectFromEntries(items) ==
  IF \E i \in 1..Len(items) : items[i].tag \in {"undefined", "null"} THEN Thrown
  ELSE OK(FromEntriesInto(<<>>, items))

RECURSIVE Flatten(_, _)
\* lines 835-841: the reduce
Flatten(acc, items) ==
  IF items = <<>> THEN acc
  ELSE LET next == Head(items)
           firstIsArray == /\ next.tag = "array"
                           /\ Len(next.items) >= 1
                           /\ next.items[1].tag \in {"entry", "array"}
       IN Flatten(IF firstIsArray THEN acc \o next.items ELSE Append(acc, next), Tail(items))

\* .filter(Boolean)
Truthy(items) == SelectSeq(items, LAMBDA item : item.tag \notin {"undefined", "null"})

RECURSIVE Nest(_, _)
\* lines 856-860
Nest(type, nestingLevel) ==
  IF nestingLevel <= 0 THEN type ELSE Nest(ListOf(type), nestingLevel - 1)

startsWith(str, prefix) ==
  Len(str) >= Len(prefix) /\ SubSeq(str, 1, Len(prefix)) = prefix

\* the parent type against which the fields of a spread fragment are resolved
\* (line 827: innerHelper, whose Field case uses the enclosing field's type)
FragmentSpreadParent(namedType, fragmentGqlType) == namedType

RECURSIVE helper(_, _, _, _, _)
RECURSIVE innerHelper(_, _, _, _, _)
\* lines 778-866
helper(sch, frags, parentGqlType, selection, depth) ==
  IF depth > StackLimit THEN Thrown
  ELSE IF parentGqlType = <<>> THEN OK(UndefinedItem)
  ELSE
    LET parentNamedType == getNamedType(parentGqlType)
        alias == selection.alias
        name == selection.name
        displayedName == IF alias # UNDEF THEN alias ELSE name
    IN IF ~HasGetFields(sch, parentNamedType) THEN Thrown
       ELSE IF name = UNDEF THEN Thrown
       ELSE IF startsWith(name, "__")
         THEN OK(EntryItem(displayedName,
                           [type |-> PrimType("any"), description |-> "Internal GraphQL field"]))
       ELSE
         LET field == FieldNamed(getFields(sch, parentNamedType), name)
             gqlType == IF field = None THEN <<>> ELSE field[1].type
             namedType == getNamedType(gqlType)
             isNullable == ~isNonNullType(gqlType)
             isList == isListType(gqlType) \/ (~isNullable /\ isListType(ofType(gqlType)))
             isObjectLike == \/ isObjectType(sch, namedType)
                             \/ isUnionType(sch, namedType)
                             \/ isInterfaceType(sch, namedType)
             mapped == IF selection.selectionSet = None THEN <<>>
                       ELSE [i \in 1..Len(selection.selectionSet[1]) |->
                               innerHelper(sch, frags, namedType, selection.selectionSet[1][i],
                                           depth + 1)]
             subThrew == \E i \in 1..Len(mapped) : mapped[i].threw
             sub == Flatten(<<>>, Truthy([i \in 1..Len(mapped) |-> mapped[i].v]))
             nestingLevel == IF isList THEN listCount(gqlType) ELSE 0
             isEnum == isEnumType(sch, namedType)
             basicType == IF isEnum THEN EnumType(getValues(sch, namedType))
                          ELSE IF namedType = <<>> THEN PrimType(UNDEF)
                          ELSE PrimType(scalarMapOfShapeBuilder(namedType[1]))
             object == ObjectFromEntries(sub)
             description == IF field = None THEN UNDEF ELSE field[1].description
             entry(returnType) ==
               OK(EntryItem(displayedName,
                            [type |-> Nest(returnType, nestingLevel), description |-> description]))
         IN IF subThrew THEN Thrown
            ELSE IF isObjectLike THEN
              IF selection.selectionSet = None THEN OK(UndefinedItem)
              ELSE IF object.threw THEN Thrown
              ELSE entry(ObjType(object.v))
            ELSE IF basicType # PrimType(UNDEF) THEN entry(basicType)
            ELSE entry(PrimType("any"))

\* lines 800-832
innerHelper(sch, frags, namedType, innerSelection, depth) ==
  IF depth > StackLimit THEN Thrown
  ELSE IF innerSelection.kind = "Field" THEN helper(sch, frags, namedType, innerSelection, depth + 1)
  ELSE IF innerSelection.kind = "InlineFragment" THEN
    IF innerSelection.typeCondition = <<>> THEN Thrown
    ELSE
      LET fragmentGqlType == typeFromAST(sch, innerSelection.typeCondition)
          fragmentSelections ==
            [i \in 1..Len(innerSelection.selectionSet[1]) |->
               helper(sch, frags, fragmentGqlType, innerSelection.selectionSet[1][i], depth + 1)]
      IN IF fragmentGqlType = <<>> THEN OK(NullItem)
         ELSE IF \E i \in 1..Len(fragmentSelections) : fragmentSelections[i].threw THEN Thrown
         ELSE OK(ArrayItem([i \in 1..Len(fragmentSelections) |-> fragmentSelections[i].v]))
  ELSE IF innerSelection.kind = "FragmentSpread" THEN
    IF innerSelection.name \notin DOMAIN frags THEN OK(NullItem)
    ELSE
      LET fragment == frags[innerSelection.name]
          fragmentGqlType == typeFromAST(sch, fragment.typeCondition)
          fragmentSelections ==
            [i \in 1..Len(fragment.selections[1]) |->
               innerHelper(sch, frags, FragmentSpreadParent(namedType, fragmentGqlType),
                           fragment.selections[1][i], depth + 1)]
      IN IF fragmentGqlType = <<>> THEN OK(NullItem)
         ELSE IF \E i \in 1..Len(fragmentSelections) : fragmentSelections[i].threw THEN Thrown
         ELSE OK(ArrayItem([i \in 1..Len(fragmentSelections) |-> fragmentSelections[i].v]))
  ELSE OK(NullItem)

\* lines 867-878
baseGqlTypeOf(sch, operationDefinition) ==
  IF operationDefinition.kind = "OperationDefinition" THEN
    IF operationDefinition.operation = "query" THEN getQueryType(sch)
    ELSE IF operationDefinition.operation = "mutation" THEN getMutationType(sch)
    ELSE IF operationDefinition.operation = "subscription" THEN getSubscriptionType(sch)
    ELSE <<>>
  ELSE IF operationDefinition.kind = "FragmentDefinition" THEN
    typeFromAST(sch, operationDefinition.typeCondition)
  ELSE <<>>

Envelope(dataType) ==
  <<[name |-> "data",
     value |-> [type |-> dataType,
                description |-> "Any data retrieved by the const function be returned here"]],
    [name |-> "errors",
     value |-> [type |-> ListOf(PrimType("any")),
                description |-> "Any errors in the function will be returned here"]]>>

\* lines 767-908; operationDefinition is the definition with its selections read through
typeScriptDefinitionObjectForOperation(sch, operationDefinition, frags) ==
  LET baseGqlType == baseGqlTypeOf(sch, operationDefinition)
      selections == operationDefinition.selections
      sub == IF selections = None THEN <<>>
             ELSE [i \in 1..Len(selections[1]) |-> helper(sch, frags, baseGqlType, selections[1][i], 0)]
      object == ObjectFromEntries([i \in 1..Len(sub) |-> sub[i].v])
  IN IF selections = None THEN OK(Envelope(PrimType("any")))
     ELSE IF \E i \in 1..Len(sub) : sub[i].threw THEN Thrown
     ELSE IF object.threw THEN Thrown
     ELSE OK(Envelope(ObjType(object.v)))

-----------------------------------------------------------------------------
(* Signature Renderer *)

IsDescribed(description) == description \notin {UNDEF, ""}

\* lines 934-943: one entry of objectHelper, tsType being valueHelper(value);
\* destructuring a value that is undefined or null throws
objectEntry(name, value, tsType) ==
  IF "raw" \in DOMAIN value /\ value.raw.tag \in {"undefined", "null"} THEN Throw
  ELSE
    LET description == IF "raw" \in DOMAIN value THEN UNDEF ELSE value.description
        doc == IF IsDescribed(description) THEN "/**\n* " \o description \o "\n*/\n" ELSE ""
    IN IF tsType = Throw THEN Throw
       ELSE doc \o "\"" \o name \o "\": " \o tsType

RECURSIVE valueHelper(_)
\* lines 912-931; a value that is no {type, description} object has no type
valueHelper(value) ==
  IF "raw" \in DOMAIN value THEN "undefined"
  ELSE IF "prim" \in DOMAIN value.type THEN value.type.prim
  ELSE IF "list" \in DOMAIN value.type THEN
    LET subType == valueHelper([type |-> value.type.list])
    IN IF subType = Throw THEN Throw ELSE "Array<" \o subType \o ">"
  ELSE IF "enum" \in DOMAIN value.type THEN
    Join([i \in 1..Len(value.type.enum) |-> "\"" \o value.type.enum[i] \o "\""], " | ")
  ELSE
    LET obj == value.type.obj
        fields == [i \in 1..Len(obj) |->
                     objectEntry(obj[i].name, obj[i].value, valueHelper(obj[i].value))]
    IN IF \E i \in 1..Len(fields) : fields[i] = Throw THEN Throw
       ELSE "{\n      " \o Join(fields, ", ") \o "\n  }"

\* lines 933-944
objectHelper(obj) ==
  [i \in 1..Len(obj) |-> objectEntry(obj[i].name, obj[i].value, valueHelper(obj[i].value))]

\* lines 946-947
renderTypeMap(typeMap) ==
  LET fields == objectHelper(typeMap.v)
  IN IF typeMap.threw THEN Throw
     ELSE IF \E i \in 1..Len(fields) : fields[i] = Throw THEN Throw
     ELSE "{" \o Join(fields, ", ") \o "}"

\* lines 910-948
typeScriptForOperation(sch, operationDefinition, frags) ==
  renderTypeMap(typeScriptDefinitionObjectForOperation(sch, operationDefinition, frags))

-----------------------------------------------------------------------------
(* Referenced-Type Collector *)

UpperCaseLetters == "ABCDEFGHIJKLMNOPQRSTUVWXYZ"
LowerCaseLetters == "abcdefghijklmnopqrstuvwxyz"

IsUpperCase(c) == \E i \in 1..Len(UpperCaseLetters) : SubSeq(UpperCaseLetters, i, i) = c

toLowerCaseChar(c) ==
  IF IsUpperCase(c)
  THEN LET i == CHOOSE j \in 1..Len(UpperCaseLetters) : SubSeq(UpperCaseLetters, j, j) = c
       IN SubSeq(LowerCaseLetters, i, i)
  ELSE c

RECURSIVE toLocaleLowerCase(_)
\* String.prototype.toLocaleLowerCase, on the letters of GraphQL names
toLocaleLowerCase(str) ==
  IF Len(str) = 0 THEN ""
  ELSE toLowerCaseChar(SubSeq(str, 1, 1)) \o toLocaleLowerCase(SubSeq(str, 2, Len(str)))

\* String.prototype.indexOf, counted from 1; 0 if there is no occurrence
indexOf(str, pattern) ==
  LET at == {i \in 1..(Len(str) - Len(pattern) + 1) : SubSeq(str, i, i + Len(pattern) - 1) = pattern}
  IN IF at = {} THEN 0 ELSE CHOOSE i \in at : \A j \in at : i <= j

\* String.prototype.replace with a string pattern: the first occurrence only
replace(str, pattern, replacement) ==
  LET i == indexOf(str, pattern)
  IN IF i = 0 THEN str
     ELSE SubSeq(str, 1, i - 1) \o replacement \o SubSeq(str, i + Len(pattern), Len(str))

\* line 664: the name under which a type is collected
collectedName(typ) == replace(toLocaleLowerCase(typ[1]), "oneme", "")

\* TypeInfo.enter of a Field: the type of the field on its parent type, the
\* meta field __typename on every composite type; undefined otherwise
TypeInfoFieldType(sch, parentType, name) ==
  IF parentType = <<>> THEN <<>>
  ELSE IF name = "__typename" /\ KindOf(sch, parentType) \in {"OBJECT", "INTERFACE", "UNION"}
    THEN <<"!", "String">>
  ELSE IF KindOf(sch, parentType) \in {"OBJECT", "INTERFACE"}
    THEN LET field == FieldNamed(getFields(sch, parentType), name)
         IN IF field = None THEN <<>> ELSE field[1].type
  ELSE <<>>

RECURSIVE TypeInfoTypes(_, _, _)
\* lines 658-668: what typeInfo.getType() gives when the nodes of a selection
\* set are entered, in the order of the visit; parentType is the named type
\* of the enclosing node
TypeInfoTypes(sch, parentType, selections) ==
  IF selections = <<>> THEN <<>>
  ELSE
    LET selection == Head(selections)
        type == CASE selection.kind = "Field" ->
                       TypeInfoFieldType(sch, parentType, selection.name)
                  [] selection.kind = "InlineFragment" ->
                       typeFromAST(sch, selection.typeCondition)
                  [] OTHER -> parentType
        below == IF selection.selectionSet = None THEN <<>>
                 ELSE TypeInfoTypes(sch, getNamedType(type), selection.selectionSet[1])
    IN <<type>> \o below \o TypeInfoTypes(sch, parentType, Tail(selections))

RECURSIVE SetAdd(_, _)
\* Set.prototype.add of the elements in turn; a Set keeps the order of insertion
SetAdd(set, elements) ==
  IF elements = <<>> THEN set
  ELSE SetAdd(IF Head(elements) \in Range(set) THEN set ELSE Append(set, Head(elements)),
              Tail(elements))

\* lines 654-671; query is the definition that is visited, and the visit
\* begins with the root type of its kind or the type of its type condition
gatherAllReferencedTypes(sch, query) ==
  LET base == baseGqlTypeOf(sch, query)
      visited == <<base>> \o
                   (IF query.selections = None THEN <<>>
                    ELSE TypeInfoTypes(sch, base, query.selections[1]))
      fullTypes == SelectSeq(visited, LAMBDA fullType : fullType # <<>>)
  IN SetAdd(<<>>, [i \in 1..Len(fullTypes) |-> collectedName(getNamedType(fullTypes[i]))])

-----------------------------------------------------------------------------
(* The schemas and documents the calls are made with *)

ScalarDef == [kind |-> "SCALAR", fields |-> <<>>, values |-> <<>>]
ObjectDef(kind, fields) == [kind |-> kind, fields |-> fields, values |-> <<>>]
FieldDef(name, type, args, description) ==
  [name |-> name, type |-> type, args |-> args, description |-> description]

\* type Query { item: Item  items: [Item!]!  node: Node  search: SearchResult
\*              count: Int!  status: Status  w: <wType> }
\* type Subscription { onItemChanged(webhookUrl: String, secret: ...): Item  onTick: Int
\*                     onItems(webhookUrl: String): [Item!]! }
\* type Mutation { rename(name: String): Item }
\* type Tree { value: Int!  children: [Tree] }
\* type OneMeUser { id: ID! }   type OneMeOneMeAccount { id: ID! }
SchemaTypes(wType) ==
  [n \in {"Query", "Mutation", "Subscription", "Item", "User", "Node", "SearchResult",
          "Status", "Filter", "OneGraphSubscriptionSecretInput", "DateTime", "Tree",
          "OneMeUser", "OneMeOneMeAccount",
          "String", "ID", "Int", "Float", "Boolean"} |->
     CASE n = "Query" ->
            ObjectDef("OBJECT",
              <<FieldDef("item", <<"Item">>, <<"id">>, "One item"),
                FieldDef("items", <<"!", "[]", "!", "Item">>, <<>>, ""),
                FieldDef("node", <<"Node">>, <<"id">>, ""),
                FieldDef("search", <<"[]", "SearchResult">>, <<>>, ""),
                FieldDef("count", <<"!", "Int">>, <<>>, ""),
                FieldDef("status", <<"Status">>, <<>>, "The status"),
                FieldDef("w", wType, <<>>, "")>>)
       [] n = "Mutation" ->
            ObjectDef("OBJECT", <<FieldDef("rename", <<"Item">>, <<"name">>, "")>>)
       [] n = "Subscription" ->
            ObjectDef("OBJECT",
              <<FieldDef("onItemChanged", <<"Item">>, <<"webhookUrl", "secret">>, ""),
                FieldDef("onTick", <<"Int">>, <<>>, ""),
                FieldDef("onItems", <<"!", "[]", "!", "Item">>, <<"webhookUrl">>, "")>>)
       [] n = "Item" ->
            ObjectDef("OBJECT",
              <<FieldDef("id", <<"!", "ID">>, <<>>, "The id"),
                FieldDef("name", <<"String">>, <<>>, ""),
                FieldDef("tags", <<"[]", "!", "String">>, <<>>, ""),
                FieldDef("owner", <<"User">>, <<>>, "")>>)
       [] n = "User" ->
            ObjectDef("OBJECT",
              <<FieldDef("id", <<"!", "ID">>, <<>>, ""),
                FieldDef("name", <<"!", "String">>, <<>>, ""),
                FieldDef("age", <<"Int">>, <<>>, "")>>)
       [] n = "Tree" ->
            ObjectDef("OBJECT",
              <<FieldDef("value", <<"!", "Int">>, <<>>, ""),
                FieldDef("children", <<"[]", "Tree">>, <<>>, "")>>)
       [] n \in {"OneMeUser", "OneMeOneMeAccount"} ->
            ObjectDef("OBJECT", <<FieldDef("id", <<"!", "ID">>, <<>>, "")>>)
       [] n = "Node" -> ObjectDef("INTERFACE", <<FieldDef("id", <<"!", "ID">>, <<>>, "")>>)
       [] n = "SearchResult" -> ObjectDef("UNION", <<>>)
       [] n = "Status" -> [kind |-> "ENUM", fields |-> <<>>, values |-> <<"ACTIVE", "DONE">>]
       [] n = "Filter" ->
            ObjectDef("INPUT_OBJECT",
              <<FieldDef("text", <<"String">>, <<>>, "Text to match"),
                FieldDef("limit", <<"!", "Int">>, <<>>, ""),
                FieldDef("tags", <<"[]", "!", "String">>, <<>>, "")>>)
       [] n = "OneGraphSubscriptionSecretInput" ->
            ObjectDef("INPUT_OBJECT", <<FieldDef("secret", <<"!", "String">>, <<>>, "")>>)
       [] OTHER -> ScalarDef]

\* a schema is named by the type of Query.w and by the root types it defines:
\* all three, or the query type only
FullSchema(wType) == [w |-> wType, roots |-> <<"Query", "Mutation", "Subscription">>]
QueryOnlySchema(wType) == [w |-> wType, roots |-> <<"Query">>]

\* the GraphQLSchema object of that name
GraphQLSchema(named) ==
  LET has(root) == \E i \in 1..Len(named.roots) : named.roots[i] = root
  IN [types |-> [n \in {m \in DOMAIN SchemaTypes(named.w) :
                          m \in {"Mutation", "Subscription"} => has(m)} |->
                   SchemaTypes(named.w)[n]],
      query |-> <<"Query">>,
      mutation |-> IF has("Mutation") THEN <<"Mutation">> ELSE <<>>,
      subscription |-> IF has("Subscription") THEN <<"Subscription">> ELSE <<>>]

\* the wrappers of a type: no non-null directly around a non-null
Wrappers == {w \in SeqsUpTo({"[]", "!"}, MaxWrap) :
               \A i \in 1..Len(w) - 1 : ~(w[i] = "!" /\ w[i + 1] = "!")}

BaseNames == {"String", "ID", "Int", "Float", "Boolean", "Status", "DateTime", "Filter"}

WrappedTypes == {w \o <<b>> : w \in Wrappers, b \in BaseNames}

Leaf(name) == Field(name, UNDEF, None, None)
Aliased(alias, name) == Field(name, alias, None, None)

\* fragment UserFields on User { name age }   fragment ItemFields on Item { id }
KnownFragments ==
  [n \in {"UserFields", "ItemFields"} |->
     IF n = "UserFields"
       THEN Definition("FragmentDefinition", UNDEF, <<"User">>, None,
                       Some(<<Leaf("name"), Leaf("age")>>))
       ELSE Definition("FragmentDefinition", UNDEF, <<"Item">>, None, Some(<<Leaf("id")>>))]

NoFragments == [n \in {} |-> None]

\* the top-level selections of the subscriptions that are patched
PatchArguments ==
  {None, Some(<<>>),
   Some(<<Argument("webhookUrl", StringValue("https://example.com/hook"))>>),
   Some(<<Argument("id", StringValue("1")), Argument("secret", Variable("mySecret"))>>)}

PatchPool ==
  {Field("onItemChanged", UNDEF, a, Some(<<Leaf("id")>>)) : a \in PatchArguments}
    \cup {Field("onTick", "tick", None, None),
          Leaf("__typename"),
          FragmentSpread("ItemFields"),
          InlineFragment(<<"Subscription">>, <<Leaf("onTick")>>)}

PatchVarPool ==
  {VariableDefinition("a", <<"Int">>),
   VariableDefinition("netligraphWebhookUrl", <<"!", "String">>),
   VariableDefinition("netligraphWebhookSecret", <<"!", "OneGraphSubscriptionSecretInput">>)}

VarPool ==
  {VariableDefinition("a", <<"Int">>),
   VariableDefinition("b", <<"String">>),
   VariableDefinition("c", <<"[]", "Missing">>),
   VariableDefinition("f", <<"!", "Filter">>)}

\* the lists of names that are requested: in any order, with repetitions, and
\* with names that are not declared
VariableNameLists == SeqsUpTo({"a", "b"}, MaxNames) \cup {<<"f">>, <<"f", "a">>, <<"z">>}

\* the selection sets of the object-like fields whose shape is built
InnerPool ==
  {Leaf("id"), Leaf("name"), Aliased("id", "name"), Leaf("__typename"), Leaf("missing"),
   Aliased("id", "tags"),
   FragmentSpread("UserFields"), FragmentSpread("ItemFields"), FragmentSpread("Unknown"),
   InlineFragment(<<"User">>, <<Leaf("name"), Leaf("age")>>),
   InlineFragment(<<"Missing">>, <<Leaf("name")>>)}

ShapePool ==
  {Field(n, UNDEF, None, Some(inner)) :
     n \in {"item", "node", "search"}, inner \in SeqsUpTo(InnerPool, MaxSel)}
    \cup {Field("item", "first", None, Some(<<Field("owner", UNDEF, None, Some(<<Leaf("name")>>))>>)),
          Field("items", UNDEF, None, Some(<<Leaf("tags"), FragmentSpread("ItemFields")>>))}

TopPool ==
  {Leaf("count"), Aliased("count", "status"), Leaf("w"), Leaf("__typename"),
   Leaf("item"), Leaf("missing"), Leaf("onTick"),
   FragmentSpread("UserFields"), FragmentSpread("Unknown"),
   InlineFragment(<<"Query">>, <<Leaf("count")>>)}

\* a document: its definition, the fragments and the schema it is used with
Document(sch, frags, kind, operation, typeCondition, variableDefinitions, selections) ==
  [schema |-> sch, fragments |-> frags,
   definition |-> Definition(kind, operation, typeCondition, variableDefinitions,
                             Some([i \in 1..Len(selections) |-> i])),
   selections |-> selections]

Operation(sch, frags, operation, variableDefinitions, selections) ==
  Document(sch, frags, "OperationDefinition", operation, <<>>, variableDefinitions, selections)

\* the documents the patchers are called with
PatchDocuments ==
  \* subscriptions: many selections, few variables
  {Operation(FullSchema(<<"Int">>), KnownFragments, "subscription", v, s) :
     v \in {None, Some(<<VariableDefinition("netligraphWebhookUrl", <<"!", "String">>)>>)},
     s \in SeqsUpTo(PatchPool, MaxSel)}
  \* subscriptions: many variables, few selections
  \cup {Operation(FullSchema(<<"Int">>), KnownFragments, "subscription", v, s) :
     v \in {Some(d) : d \in SeqsUpTo(PatchVarPool, MaxVars)},
     s \in {<<>>, <<Field("onItemChanged", UNDEF, None, Some(<<Leaf("id")>>))>>}}
  \* what is not a subscription, and a schema without a subscription type
  \cup {Operation(sch, KnownFragments, o, v, s) :
     sch \in {FullSchema(<<"Int">>), QueryOnlySchema(<<"Int">>)},
     o \in {"subscription", "query", "mutation"},
     v \in {None, Some(<<VariableDefinition("a", <<"Int">>)>>)},
     s \in {<<Field("onItemChanged", UNDEF, None, Some(<<Leaf("id")>>))>>,
            <<Field("onItemChanged", UNDEF, Some(<<>>), Some(<<Leaf("id")>>)), Leaf("onTick")>>}}
  \cup {Document(sch, KnownFragments, "FragmentDefinition", UNDEF, <<"Subscription">>, None, s) :
     sch \in {FullSchema(<<"Int">>), QueryOnlySchema(<<"Int">>)},
     s \in {<<Field("onItemChanged", UNDEF, None, Some(<<Leaf("id")>>))>>}}

\* a type of one wrapper more than listCount unwraps: [[...[Int]!...]!]
OverDeepType ==
  [i \in 1..(maximumDepth + 1) |-> IF i % 2 = 1 THEN "[]" ELSE "!"] \o <<"Int">>

\* the documents whose shape is built
ShapeDocuments ==
  \* a field of a type that is wrapped too deep, alone and with siblings
  {Operation(FullSchema(OverDeepType), KnownFragments, "query", None, s) :
     s \in {<<Leaf("w")>>, <<Leaf("count"), Leaf("w")>>, <<Leaf("w"), Leaf("status")>>}} \cup
  \* queries with nested selection sets
  {Operation(FullSchema(<<"Int">>), KnownFragments, "query", None, <<s>>) : s \in ShapePool}
  \* operations of every kind, with and without their root type
  \cup {Operation(sch, KnownFragments, o, None, s) :
     sch \in {FullSchema(<<"[]", "Filter">>), QueryOnlySchema(<<"[]", "Filter">>)},
     o \in {"query", "mutation", "subscription"},
     s \in SeqsUpTo(TopPool, MaxSel)}
  \* fragment definitions, on a type of the schema and on none
  \cup {Document(FullSchema(<<"Int">>), KnownFragments, "FragmentDefinition", UNDEF, t, None, s) :
     t \in {<<"Item">>, <<"Missing">>},
     s \in {<<>>, <<Leaf("id")>>, <<Leaf("id"), Leaf("name")>>}}

\* the documents whose variables and types are mapped
TypeDocuments ==
  \* a field of a type that refers to itself
  {Operation(FullSchema(<<"Tree">>), NoFragments, "query", None,
             <<Field("w", UNDEF, None, Some(<<Leaf("value")>>))>>)} \cup
  \* a field and a variable of every wrapped type
  {Operation(FullSchema(t), NoFragments, "query",
             Some(<<VariableDefinition("a", t)>>), <<Leaf("w")>>) : t \in WrappedTypes}
  \* operations with and without variable declarations
  \cup {Operation(FullSchema(<<"Int">>), NoFragments, "query", v, <<Leaf("count")>>) :
     v \in {None} \cup {Some(d) : d \in SeqsUpTo(VarPool, MaxVars)}}

\* the selections of the documents whose referenced types are collected
CollectPool ==
  {Field("w", UNDEF, None, Some(<<Leaf("id")>>)),
   Field("item", UNDEF, None,
         Some(<<Leaf("id"), Field("owner", UNDEF, None, Some(<<Leaf("name")>>))>>)),
   Field("node", UNDEF, None, Some(<<InlineFragment(<<"User">>, <<Leaf("name")>>)>>)),
   Field("search", UNDEF, None, Some(<<Leaf("__typename")>>)),
   Leaf("count"), Leaf("status"), Leaf("missing"), FragmentSpread("UserFields")}

CollectDocuments ==
  {Operation(FullSchema(t), KnownFragments, "query",
             Some(<<VariableDefinition("f", <<"!", "Filter">>)>>), s) :
     t \in {<<"OneMeUser">>, <<"[]", "!", "OneMeOneMeAccount">>, <<"!", "User">>},
     s \in SeqsUpTo(CollectPool, MaxSel)}

-----------------------------------------------------------------------------
(* The calls *)

NoResult(op) == [op |-> op, threw |-> FALSE, ret |-> 0, text |-> "", shape |-> <<>>,
                 names |-> <<>>, type |-> <<>>, referenced |-> <<>>]

\* the input definition as the caller sees it
InputValue == DefinitionValue(selHeap, defHeap, input)

\* what the caller passes to a call, as it is when the call begins
Arguments(sels, defs, d) ==
  [definition |-> DefinitionValue(sels, defs, d), schema |-> schema,
   fragments |-> fragmentDefinitions, nsel |-> Len(sels), ndef |-> Len(defs)]

Snapshot(sels, defs) == Arguments(sels, defs, input)

\* the objects that exist when a call begins: the result of the call before, if
\* the caller did not keep it, is gone
LiveSels == SubSeq(selHeap, 1, before.nsel)
LiveDefs == SubSeq(defHeap, 1, before.ndef)
LiveInput == DefinitionValue(LiveSels, LiveDefs, input)

InitWith(docs) ==
  \E doc \in docs :
    /\ schema = doc.schema
    /\ fragmentDefinitions = doc.fragments
    /\ selHeap = doc.selections
    /\ defHeap = <<doc.definition>>
    /\ input = 1
    /\ history = <<>>
    /\ before = [definition |-> DefinitionValue(doc.selections, <<doc.definition>>, 1),
                 schema |-> doc.schema, fragments |-> doc.fragments,
                 nsel |-> Len(doc.selections), ndef |-> 1]
    /\ result = NoResult("none")

Patched(op, out) ==
  /\ selHeap' = out.sels
  /\ defHeap' = out.defs
  /\ before' = Snapshot(LiveSels, LiveDefs)
  /\ result' = [NoResult(op) EXCEPT !.threw = out.threw, !.ret = out.ret]
  /\ UNCHANGED <<schema, fragmentDefinitions, input, history>>

CallPatchSubscriptionWebhookField ==
  /\ Len(history) < MaxPatches
  /\ Patched("patchSubscriptionWebhookField",
             patchSubscriptionWebhookField(GraphQLSchema(schema), LiveSels, LiveDefs, input))

CallPatchSubscriptionWebhookSecretField ==
  /\ Len(history) < MaxPatches
  /\ Patched("patchSubscriptionWebhookSecretField",
             patchSubscriptionWebhookSecretField(GraphQLSchema(schema), LiveSels, LiveDefs, input))

\* the caller goes on with the definition a patcher returned
UsePatched ==
  /\ result.op \in {"patchSubscriptionWebhookField", "patchSubscriptionWebhookSecretField"}
  /\ ~result.threw
  /\ input' = result.ret
  /\ history' = Append(history, result.op)
  /\ before' = Arguments(selHeap, defHeap, result.ret)
  /\ result' = NoResult("none")
  /\ UNCHANGED <<schema, fragmentDefinitions, selHeap, defHeap>>

\* a call that reads its arguments and returns a value
Returned(res) ==
  /\ selHeap' = LiveSels
  /\ defHeap' = LiveDefs
  /\ before' = Snapshot(LiveSels, LiveDefs)
  /\ result' = res
  /\ UNCHANGED <<schema, fragmentDefinitions, input, history>>

CallTypeScriptSignatureForOperationVariables ==
  \E variableNames \in VariableNameLists :
    LET text == typeScriptSignatureForOperationVariables(variableNames, GraphQLSchema(schema), LiveInput)
    IN Returned([NoResult("typeScriptSignatureForOperationVariables") EXCEPT
                   !.threw = (text = Throw), !.text = text, !.names = variableNames])

\* the types the type mapper is called with: those of the declared variables
\* and of the fields of the root type that the definition selects
TypesInUse ==
  LET definition == LiveInput
      sch == GraphQLSchema(schema)
      base == baseGqlTypeOf(sch, definition)
      declared == IF definition.variableDefinitions = None THEN {}
                  ELSE {typeFromAST(sch, d.type) : d \in Range(definition.variableDefinitions[1])}
      selected == IF base = <<>> \/ definition.selections = None THEN {}
                  ELSE {f.type : f \in {g \in Range(getFields(sch, base)) :
                                          \E sel \in Range(definition.selections[1]) :
                                            sel.kind = "Field" /\ sel.name = g.name}}
  IN declared \cup selected

CallTypeScriptForGraphQLType ==
  \E gqlType \in TypesInUse :
    LET text == typeScriptForGraphQLType(GraphQLSchema(schema), gqlType)
    IN Returned([NoResult("typeScriptForGraphQLType") EXCEPT
                   !.threw = (text = Throw), !.text = text, !.type = gqlType])

CallTypeScriptDefinitionObjectForOperation ==
  LET typeMap == typeScriptDefinitionObjectForOperation(GraphQLSchema(schema), LiveInput,
                                                        fragmentDefinitions)
  IN Returned([NoResult("typeScriptDefinitionObjectForOperation") EXCEPT
                 !.threw = typeMap.threw,
                 !.shape = IF typeMap.threw THEN <<>> ELSE typeMap.v])

CallTypeScriptForOperation ==
  LET text == typeScriptForOperation(GraphQLSchema(schema), LiveInput, fragmentDefinitions)
  IN Returned([NoResult("typeScriptForOperation") EXCEPT !.threw = (text = Throw), !.text = text])

CallGatherAllReferencedTypes ==
  Returned([NoResult("gatherAllReferencedTypes") EXCEPT
              !.referenced = gatherAllReferencedTypes(GraphQLSchema(schema), LiveInput)])

\* the patchers, on the documents they are called with
InitPatch == InitWith(PatchDocuments)

NextPatch ==
  \/ CallPatchSubscriptionWebhookField
  \/ CallPatchSubscriptionWebhookSecretField
  \/ UsePatched
  \/ CallTypeScriptDefinitionObjectForOperation

SpecPatch == InitPatch /\ [][NextPatch]_vars

\* the shape builder and the renderer
InitShape == InitWith(ShapeDocuments)

NextShape ==
  \/ CallTypeScriptDefinitionObjectForOperation
  \/ CallTypeScriptForOperation

SpecShape == InitShape /\ [][NextShape]_vars

\* the variable signature builder, the type mapper and the renderer
InitTypes == InitWith(TypeDocuments)

NextTypes ==
  \/ CallTypeScriptSignatureForOperationVariables
  \/ CallTypeScriptForGraphQLType
  \/ CallTypeScriptForOperation

SpecTypes == InitTypes /\ [][NextTypes]_vars

\* the collector of referenced types
InitCollect == InitWith(CollectDocuments)

NextCollect == CallGatherAllReferencedTypes

SpecCollect == InitCollect /\ [][NextCollect]_vars

-----------------------------------------------------------------------------
(* Variable Signature Builder: claims *)

VariablesCalled == result.op = "typeScriptSignatureForOperationVariables"

DeclaredVariables ==
  IF before.definition.variableDefinitions = None THEN <<>>
  ELSE before.definition.variableDefinitions[1]

NoVariableRetained ==
  \A i \in 1..Len(DeclaredVariables) :
    \A j \in 1..Len(result.names) : DeclaredVariables[i].name # result.names[j]

\* C1: when no declared variable is retained after filtering, the variable
\* signature is the null-type expression 'null', not an empty object '{}'.
C1_NullWhenNoVariableRetained ==
  (VariablesCalled /\ NoVariableRetained) => (~result.threw /\ result.text = "null")

RECURSIVE ExpectedVariableEntries(_, _, _)
\* one entry per declaration whose name is requested, in the order of declaration
ExpectedVariableEntries(sch, declared, names) ==
  IF declared = <<>> THEN <<>>
  ELSE LET d == Head(declared)
           rest == ExpectedVariableEntries(sch, Tail(declared), names)
       IN IF \E j \in 1..Len(names) : names[j] = d.name
          THEN <<"\"" \o d.name \o "\": "
                   \o typeScriptForGraphQLType(sch, typeFromAST(sch, d.type))>> \o rest
          ELSE rest

\* C2: the emitted object has exactly one entry per declared variable whose
\* name is in variableNames, none for any other, each typed by the type mapper
\* on the declared type, in the order of declaration.
C2_EntriesAreTheRetainedDeclarations ==
  VariablesCalled =>
    /\ ~result.threw
    /\ result.text =
         "{" \o Join(ExpectedVariableEntries(GraphQLSchema(schema), DeclaredVariables,
                                              result.names), ", ") \o "}"

\* query Q($a: Int, $b: String) filtered to ["b", "a"]: the order of declaration
C2_Witness ==
  /\ VariablesCalled
  /\ DeclaredVariables = <<VariableDefinition("a", <<"Int">>), VariableDefinition("b", <<"String">>)>>
  /\ result.names = <<"b", "a">>
  /\ result.text = "{\"a\": number, \"b\": string}"

-----------------------------------------------------------------------------
(* Subscription Webhook Patcher: claims *)

PatcherOps == {"patchSubscriptionWebhookField", "patchSubscriptionWebhookSecretField"}
PatcherCalled == result.op \in PatcherOps

ArgNameOf(op) == IF op = "patchSubscriptionWebhookField" THEN "webhookUrl" ELSE "secret"
VariableNameOf(op) ==
  IF op = "patchSubscriptionWebhookField" THEN "netligraphWebhookUrl" ELSE "netligraphWebhookSecret"
VariableTypeOf(op) ==
  IF op = "patchSubscriptionWebhookField" THEN <<"!", "String">>
  ELSE <<"!", "OneGraphSubscriptionSecretInput">>

\* the definition the last patcher call returned
Returned_ == DefinitionValue(selHeap, defHeap, result.ret)

\* C3: patching twice is patching once: the second application of a patcher
\* returns a definition structurally equal to the one it is given.
C3_PatchIsIdempotent ==
  (PatcherCalled /\ history # <<>> /\ history[Len(history)] = result.op) =>
    (~result.threw /\ Returned_ = InputValue)

\* subscription { onItemChanged { id } }, patched and patched again
C3_Witness ==
  /\ result.op = "patchSubscriptionWebhookField"
  /\ history = <<"patchSubscriptionWebhookField">>
  /\ ~result.threw
  /\ InputValue.variableDefinitions =
       Some(<<VariableDefinition("netligraphWebhookUrl", <<"!", "String">>)>>)
  /\ InputValue.selections =
       Some(<<Field("onItemChanged", UNDEF,
                    Some(<<Argument("webhookUrl", Variable("netligraphWebhookUrl"))>>),
                    Some(<<Leaf("id")>>))>>)
  /\ Returned_ = InputValue

\* the last call patched a subscription on a schema with a subscription type,
\* and returned
SubscriptionPatched ==
  /\ PatcherCalled
  /\ before.definition.operation = "subscription"
  /\ getSubscriptionType(GraphQLSchema(schema)) # <<>>
  /\ ~result.threw

SelectionsBefore == before.definition.selections[1]
SelectionsReturned == Returned_.selections[1]

SuppliedArguments(selection) ==
  IF selection.arguments = None THEN <<>> ELSE selection.arguments[1]

\* the subscription type declares the argument for the field the selection
\* names, and the selection does not supply it
LacksDeclaredArgument(selection, argName) ==
  /\ selection.kind = "Field"
  /\ \E f \in Range(getFields(GraphQLSchema(schema), <<"Subscription">>)) :
       f.name = selection.name /\ argName \in Range(f.args)
  /\ \A a \in Range(SuppliedArguments(selection)) : a.name # argName

InjectedArgument(op) == Argument(ArgNameOf(op), Variable(VariableNameOf(op)))

\* C4: the returned selection list has the length and order of the input; a
\* selection is changed iff it is a Field for which the subscription type
\* declares the argument and which does not supply it; the change is the one
\* argument appended after the existing ones; every other selection is as it was.
C4_OnlyLackingFieldsGetTheArgument ==
  SubscriptionPatched =>
    /\ Len(SelectionsReturned) = Len(SelectionsBefore)
    /\ \A i \in 1..Len(SelectionsBefore) :
         SelectionsReturned[i] =
           IF LacksDeclaredArgument(SelectionsBefore[i], ArgNameOf(result.op))
           THEN [SelectionsBefore[i] EXCEPT !.arguments =
                   Some(Append(SuppliedArguments(SelectionsBefore[i]), InjectedArgument(result.op)))]
           ELSE SelectionsBefore[i]

\* subscription { onItemChanged(id: "1", secret: $mySecret) { id } ...ItemFields }
\* patched for the webhook URL
C4_Witness ==
  /\ SubscriptionPatched
  /\ result.op = "patchSubscriptionWebhookField"
  /\ SelectionsBefore =
       <<Field("onItemChanged", UNDEF,
               Some(<<Argument("id", StringValue("1")), Argument("secret", Variable("mySecret"))>>),
               Some(<<Leaf("id")>>)),
         FragmentSpread("ItemFields")>>
  /\ SelectionsReturned =
       <<Field("onItemChanged", UNDEF,
               Some(<<Argument("id", StringValue("1")), Argument("secret", Variable("mySecret")),
                      Argument("webhookUrl", Variable("netligraphWebhookUrl"))>>),
               Some(<<Leaf("id")>>)),
         FragmentSpread("ItemFields")>>

VariablesBefore == DeclaredVariables
VariablesReturned == Returned_.variableDefinitions[1]

Occurrences(declarations, name) ==
  Cardinality({i \in 1..Len(declarations) : declarations[i].name = name})

\* C5: the returned declarations are those of the input, in order, followed by
\* the one new non-null declaration iff the input declares no variable of that
\* name; a name declared at most once in the input is declared once in the output.
C5_DeclarationAddedIffAbsent ==
  SubscriptionPatched =>
    LET name == VariableNameOf(result.op)
    IN /\ Returned_.variableDefinitions # None
       /\ VariablesReturned =
            IF Occurrences(VariablesBefore, name) = 0
            THEN Append(VariablesBefore, VariableDefinition(name, VariableTypeOf(result.op)))
            ELSE VariablesBefore
       /\ Occurrences(VariablesBefore, name) <= 1 => Occurrences(VariablesReturned, name) = 1

\* subscription ($a: Int, $netligraphWebhookUrl: String!) patched for the secret
C5_Witness ==
  /\ SubscriptionPatched
  /\ result.op = "patchSubscriptionWebhookSecretField"
  /\ VariablesBefore =
       <<VariableDefinition("a", <<"Int">>),
         VariableDefinition("netligraphWebhookUrl", <<"!", "String">>)>>
  /\ VariablesReturned =
       <<VariableDefinition("a", <<"Int">>),
         VariableDefinition("netligraphWebhookUrl", <<"!", "String">>),
         VariableDefinition("netligraphWebhookSecret", <<"!", "OneGraphSubscriptionSecretInput">>)>>

\* C6: for a definition that is not a subscription, or a schema without a
\* subscription type, a patcher returns the definition it was given: nothing
\* is injected, nothing is declared.
C6_NoOpUnlessSubscriptionWithRoot ==
  (/\ PatcherCalled
   /\ \/ before.definition.operation # "subscription"
      \/ getSubscriptionType(GraphQLSchema(schema)) = <<>>)
    => (~result.threw /\ result.ret = input /\ Returned_ = before.definition)

\* query { onItemChanged { id } } on a schema whose subscription type declares
\* the arguments for onItemChanged
C6_Witness ==
  /\ PatcherCalled
  /\ before.definition.operation = "query"
  /\ getSubscriptionType(GraphQLSchema(schema)) # <<>>
  /\ before.definition.selections =
       Some(<<Field("onItemChanged", UNDEF, None, Some(<<Leaf("id")>>))>>)
  /\ Returned_ = before.definition

\* C7: after a call to a patcher or to the shape builder the definition that
\* was passed, the fragment mapping and the schema are as they were when the
\* call began; what a patcher changes is in the definition it returns only.
C7_ArgumentsAreNotMutated ==
  result.op # "none" =>
    /\ InputValue = before.definition
    /\ fragmentDefinitions = before.fragments
    /\ schema = before.schema

\* a patcher returned a definition that differs from the one it was given
C7_Witness ==
  /\ SubscriptionPatched
  /\ Returned_.selections # before.definition.selections
  /\ Returned_.variableDefinitions # before.definition.variableDefinitions
  /\ InputValue = before.definition

-----------------------------------------------------------------------------
(* Selection-Set Shape Builder: claims *)

ShapeCalled == result.op = "typeScriptDefinitionObjectForOperation"

\* the root type for the kind of the definition is not in the schema
RootIsAbsent == baseGqlTypeOf(GraphQLSchema(schema), before.definition) = <<>>

\* C8: when the root type for the operation kind cannot be resolved, the shape
\* builder returns the data/errors envelope whose data is an empty or an `any`
\* shape, for every selection set; it does not throw.
C8_AbsentRootGivesEmptyShape ==
  (ShapeCalled /\ RootIsAbsent) =>
    /\ ~result.threw
    /\ result.shape \in {Envelope(PrimType("any")), Envelope(ObjType(<<>>))}

RECURSIVE InlineSpreads(_, _)
\* the selection with every spread of a known fragment replaced by the inline
\* fragment of the same type condition and selections
InlineSpreads(frags, selection) ==
  IF selection.kind = "FragmentSpread" /\ selection.name \in DOMAIN frags
  THEN LET fragment == frags[selection.name]
       IN InlineFragment(fragment.typeCondition,
                         [i \in 1..Len(fragment.selections[1]) |->
                            InlineSpreads(frags, fragment.selections[1][i])])
  ELSE IF selection.selectionSet = None THEN selection
  ELSE [selection EXCEPT !.selectionSet =
          Some([i \in 1..Len(selection.selectionSet[1]) |->
                  InlineSpreads(frags, selection.selectionSet[1][i])])]

InlinedDefinition(frags, definition) ==
  [definition EXCEPT !.selections =
     IF definition.selections = None THEN None
     ELSE Some([i \in 1..Len(definition.selections[1]) |->
                  InlineSpreads(frags, definition.selections[1][i])])]

FieldsAtTopLevel(definition) ==
  /\ definition.selections # None
  /\ \A i \in 1..Len(definition.selections[1]) : definition.selections[1][i].kind = "Field"

\* C10: below the top-level fields, a spread of a known fragment contributes
\* what the inline fragment of the same type condition and selections
\* contributes at that position: the shape of the definition is the shape of
\* the definition with every such spread replaced by that inline fragment.
C10_SpreadIsItsInlineFragment ==
  (ShapeCalled /\ FieldsAtTopLevel(before.definition)) =>
    LET inlined == typeScriptDefinitionObjectForOperation(
                     GraphQLSchema(schema),
                     InlinedDefinition(fragmentDefinitions, before.definition),
                     fragmentDefinitions)
    IN /\ result.threw = inlined.threw
       /\ ~result.threw => result.shape = inlined.v

-----------------------------------------------------------------------------
(* Type Mapper and list nesting: claims *)

ListWrappers(gqlType) == Cardinality({i \in 1..Len(gqlType) : gqlType[i] = "[]"})

RECURSIVE ArrayLevels(_, _)
ArrayLevels(text, levels) ==
  IF levels = 0 THEN text ELSE "Array<" \o ArrayLevels(text, levels - 1) \o ">"

TableScalars == {"String", "ID", "Int", "Float", "Boolean"}
PrimitiveOf(name) ==
  CASE name \in {"String", "ID"} -> "string"
    [] name \in {"Int", "Float"} -> "number"
    [] name = "Boolean" -> "boolean"

\* the text of typeScriptForOperation for query { w }, around the type of w
BeforeW ==
  "{/**\n* Any data retrieved by the const function be returned here\n*/\n\"data\": {\n      \"w\": "
AfterW ==
  "\n  }, /**\n* Any errors in the function will be returned here\n*/\n\"errors\": Array<any>}"

TypeOfW(text) == SubSeq(text, Len(BeforeW) + 1, Len(text) - Len(AfterW))

MapperCalled == result.op = "typeScriptForGraphQLType" /\ result.type # <<>>
RenderedW == result.op = "typeScriptForOperation" /\ before.definition.selections = Some(<<Leaf("w")>>)

\* C9: a type built from a base named type by non-null and list wrappers maps,
\* by the type mapper and by the shape builder with the renderer, to the
\* mapping of the base type in as many array levels as there are list
\* wrappers; String, ID, Int, Float, Boolean map to string, string, number,
\* number, boolean.
C9_ListNestingAndScalarTable ==
  /\ MapperCalled =>
       LET base == getNamedType(result.type)
           levels == ListWrappers(result.type)
       IN /\ result.text =
               ArrayLevels(typeScriptForGraphQLType(GraphQLSchema(schema), base), levels)
          /\ base[1] \in TableScalars => result.text = ArrayLevels(PrimitiveOf(base[1]), levels)
  /\ RenderedW =>
       LET base == getNamedType(schema.w)
           levels == ListWrappers(schema.w)
           ofBase == typeScriptForOperation(GraphQLSchema([schema EXCEPT !.w = base]),
                                            before.definition, fragmentDefinitions)
       IN /\ ~result.threw
          /\ result.text = BeforeW \o ArrayLevels(TypeOfW(ofBase), levels) \o AfterW
          /\ base[1] \in TableScalars =>
               result.text = BeforeW \o ArrayLevels(PrimitiveOf(base[1]), levels) \o AfterW

\* [[Int!]!] is mapped to Array<Array<number>>
C9_Witness ==
  /\ MapperCalled
  /\ result.type = <<"[]", "!", "[]", "!", "Int">>
  /\ result.text = "Array<Array<number>>"

-----------------------------------------------------------------------------
(* Selection-Set Shape Builder: unknown spreads and display names *)

IsUnknownSpread(frags, selection) ==
  selection.kind = "FragmentSpread" /\ selection.name \notin DOMAIN frags

RECURSIVE WithoutUnknownSpreads(_, _)
\* the selections without the spreads of fragments the mapping does not have,
\* at every level
WithoutUnknownSpreads(frags, selections) ==
  LET kept == SelectSeq(selections, LAMBDA selection : ~IsUnknownSpread(frags, selection))
  IN [i \in 1..Len(kept) |->
        IF kept[i].selectionSet = None THEN kept[i]
        ELSE [kept[i] EXCEPT !.selectionSet =
                Some(WithoutUnknownSpreads(frags, kept[i].selectionSet[1]))]]

\* C11: a spread of a fragment that the mapping does not have contributes no
\* entry, at the top level and below, and the build does not fail because of
\* it: when the root type is in the schema, the outcome is that of the
\* definition without these spreads.
C11_UnknownSpreadContributesNothing ==
  (ShapeCalled /\ ~RootIsAbsent /\ before.definition.selections # None) =>
    LET without == typeScriptDefinitionObjectForOperation(
                     GraphQLSchema(schema),
                     [before.definition EXCEPT !.selections =
                        Some(WithoutUnknownSpreads(fragmentDefinitions,
                                                   before.definition.selections[1]))],
                     fragmentDefinitions)
    IN /\ result.threw = without.threw
       /\ ~result.threw => result.shape = without.v

DisplayName(selection) == IF selection.alias # UNDEF THEN selection.alias ELSE selection.name

\* what the selections of one level contribute, in selection order, the
\* entries of fragments spliced in: the array Object.fromEntries is given
LevelItems(sch, frags, namedType, selections) ==
  Flatten(<<>>, Truthy([i \in 1..Len(selections) |->
                          innerHelper(sch, frags, namedType, selections[i], 1).v]))

AllEntries(items) == \A i \in 1..Len(items) : items[i].tag = "entry"

\* one entry per name that is contributed, holding what the last contribution
\* of that name holds
Collapsed(entries, items) ==
  /\ \A i, j \in 1..Len(entries) : entries[i].name = entries[j].name => i = j
  /\ {entries[i].name : i \in 1..Len(entries)} = {items[i].name : i \in 1..Len(items)}
  /\ \A j \in 1..Len(entries) :
       LET last == CHOOSE i \in 1..Len(items) :
                     /\ items[i].name = entries[j].name
                     /\ \A k \in (i + 1)..Len(items) : items[k].name # entries[j].name
       IN entries[j].value = items[last].value

RECURSIVE Unlist(_)
Unlist(type) == IF "list" \in DOMAIN type THEN Unlist(type.list) ELSE type

\* C12: an entry is keyed by the alias of the selection, or by the field name
\* if there is no alias; of several contributions of one display name at one
\* level, fragments' entries included, the level holds one entry, with the type
\* resolved for the last of them in selection order.
C12_LastDisplayNameWins ==
  (ShapeCalled /\ ~result.threw /\ ~RootIsAbsent /\ FieldsAtTopLevel(before.definition)) =>
    LET sch == GraphQLSchema(schema)
        base == baseGqlTypeOf(sch, before.definition)
        selections == before.definition.selections[1]
        data == result.shape[1].value.type.obj
        top == [i \in 1..Len(selections) |->
                  helper(sch, fragmentDefinitions, base, selections[i], 0).v]
    IN /\ \A i \in 1..Len(selections) : top[i].name = DisplayName(selections[i])
       /\ Collapsed(data, top)
       /\ (Len(selections) = 1 /\ selections[1].selectionSet # None) =>
            LET namedType == getNamedType(FieldNamed(getFields(sch, base),
                                                     selections[1].name)[1].type)
                inner == selections[1].selectionSet[1]
                level == Unlist(data[1].value.type)
                items == LevelItems(sch, fragmentDefinitions, namedType, inner)
            IN AllEntries(items) =>
                 /\ Collapsed(level.obj, items)
                 /\ \A i \in 1..Len(inner) :
                      inner[i].kind = "Field" =>
                        \E j \in 1..Len(items) : items[j].name = DisplayName(inner[i])

\* query { item { id: tags ...ItemFields } }: the id of the fragment, which
\* comes last, is the one entry "id"
C12_Witness ==
  /\ ShapeCalled
  /\ ~result.threw
  /\ before.definition.selections =
       Some(<<Field("item", UNDEF, None,
                    Some(<<Aliased("id", "tags"), FragmentSpread("ItemFields")>>))>>)
  /\ result.shape[1].value.type =
       ObjType(<<[name |-> "item",
                  value |-> [type |-> ObjType(<<[name |-> "id",
                                                 value |-> [type |-> PrimType("string"),
                                                            description |-> "The id"]]>>),
                             description |-> "One item"]]>>)

-----------------------------------------------------------------------------
(* Selection-Set Shape Builder: the depth guard *)

DataEntries == result.shape[1].value.type.obj

\* the shape builder was called on a selection of the field w, whose type has
\* more wrappers than listCount unwraps
OverrunSelected ==
  /\ ShapeCalled
  /\ listCount(schema.w) = errorSigil
  /\ before.definition.selections # None
  /\ \E i \in 1..Len(before.definition.selections[1]) :
       before.definition.selections[1][i] = Leaf("w")

\* C13: when the type of a selected field has more wrappers than the maximum
\* unwrap depth, the call returns, the entry of that field is a marker and not
\* a type resolved as usual (the base type's mapping in some number of list
\* levels), and the sibling entries are what they are without the overrun.
C13_OverrunIsMarked ==
  OverrunSelected =>
    LET ofBase == typeScriptDefinitionObjectForOperation(
                    GraphQLSchema([schema EXCEPT !.w = getNamedType(schema.w)]),
                    before.definition, fragmentDefinitions)
        resolved == CHOOSE e \in Range(ofBase.v[1].value.type.obj) : e.name = "w"
    IN /\ ~result.threw
       /\ \A e \in Range(DataEntries) :
            IF e.name = "w"
            THEN \A levels \in 0..Len(schema.w) :
                   e.value.type # Nest(resolved.value.type, levels)
            ELSE e \in Range(ofBase.v[1].value.type.obj)

-----------------------------------------------------------------------------
(* Type Mapper: termination and object types *)

\* C14: the type mapper terminates and returns a type expression for every
\* type of the schema, a type whose fields refer back to it included.
C14_TypeMapperReturns ==
  MapperCalled => (~result.threw /\ result.text # Throw)

WithoutNonNull(gqlType) == SelectSeq(gqlType, LAMBDA wrapper : wrapper # "!")

\* the entry of a field: its description as a doc comment, its name, the
\* optional marker unless the type is non-null, the mapping of its type
ExpectedObjectEntry(sch, field) ==
  (IF field.description = "" THEN "" ELSE "/**\n* " \o field.description \o "\n*/\n")
    \o "\"" \o field.name \o "\"" \o (IF field.type[1] = "!" THEN "" ELSE "?") \o ": "
    \o typeScriptForGraphQLType(sch, field.type)

\* the type mapper returned for an object or input-object type, bare or non-null
ObjectMapped ==
  /\ MapperCalled
  /\ ~result.threw
  /\ ListWrappers(result.type) = 0
  /\ KindOf(GraphQLSchema(schema), result.type) \in {"OBJECT", "INPUT_OBJECT"}

\* C17: for an object or input-object type the type mapper emits one entry per
\* field, in declared order, with the optional marker `?` iff the field's type
\* is not non-null at its outermost level; the type expression of the field is
\* the same with and without its non-null wrappers.
C17_OptionalMarkerIffNullable ==
  ObjectMapped =>
    LET sch == GraphQLSchema(schema)
        fields == getFields(sch, getNamedType(result.type))
    IN /\ result.text =
            "{" \o Join([i \in 1..Len(fields) |-> ExpectedObjectEntry(sch, fields[i])], ", ") \o "}"
       /\ \A i \in 1..Len(fields) :
            typeScriptForGraphQLType(sch, fields[i].type) =
              typeScriptForGraphQLType(sch, WithoutNonNull(fields[i].type))

\* input Filter { text: String  limit: Int!  tags: [String!] }, as Filter!
C17_Witness ==
  /\ ObjectMapped
  /\ result.type = <<"!", "Filter">>
  /\ result.text =
       "{/**\n* Text to match\n*/\n\"text\"?: string, \"limit\": number, \"tags\"?: Array<string>}"

-----------------------------------------------------------------------------
(* Selection-Set Shape Builder: introspection fields *)

IsIntrospectionField(selection) ==
  selection.kind = "Field" /\ startsWith(selection.name, "__")

\* the shape builder was called on query { f { __x ... } }: a field f of an
\* object, interface or union type, selecting introspection fields only
IntrospectionSelected ==
  /\ ShapeCalled
  /\ ~RootIsAbsent
  /\ before.definition.selections # None
  /\ Len(before.definition.selections[1]) = 1
  /\ LET selection == before.definition.selections[1][1]
         sch == GraphQLSchema(schema)
         field == FieldNamed(getFields(sch, baseGqlTypeOf(sch, before.definition)),
                             selection.name)
     IN /\ selection.kind = "Field"
        /\ selection.selectionSet # None
        /\ selection.selectionSet[1] # <<>>
        /\ \A i \in 1..Len(selection.selectionSet[1]) :
             IsIntrospectionField(selection.selectionSet[1][i])
        /\ field # None
        /\ KindOf(sch, getNamedType(field[1].type)) \in {"OBJECT", "INTERFACE", "UNION"}

\* C16: a selection of a field whose name starts with a double underscore
\* gives the entry displayName -> any, annotated as an internal field,
\* whatever the parent type is (object, interface or union), without failing.
C16_IntrospectionFieldIsAny ==
  IntrospectionSelected =>
    /\ ~result.threw
    /\ LET inner == before.definition.selections[1][1].selectionSet[1]
           level == Unlist(DataEntries[1].value.type)
       IN /\ "obj" \in DOMAIN level
          /\ Len(level.obj) >= 1
          /\ \A i \in 1..Len(inner) :
               [name |-> DisplayName(inner[i]),
                value |-> [type |-> PrimType("any"),
                           description |-> "Internal GraphQL field"]] \in Range(level.obj)

-----------------------------------------------------------------------------
(* Subscription Webhook Patcher: the two patchers together *)

ReferencesVariable(selection, variableName) ==
  \E a \in Range(SuppliedArguments(selection)) : a.value = Variable(variableName)

\* the definition that was patched selects something and neither declares nor
\* references the variable
VariableIsNew ==
  /\ SubscriptionPatched
  /\ SelectionsBefore # <<>>
  /\ Occurrences(VariablesBefore, VariableNameOf(result.op)) = 0
  /\ \A i \in 1..Len(SelectionsBefore) :
       ~ReferencesVariable(SelectionsBefore[i], VariableNameOf(result.op))

\* C18: for a subscription that neither declares nor references the variable,
\* the returned definition declares it iff one of its top-level selections
\* carries the injected argument: no reference to an undeclared variable, no
\* declaration that no selection uses.
C18_DeclaredIffReferenced ==
  VariableIsNew =>
    (Occurrences(VariablesReturned, VariableNameOf(result.op)) >= 1
       <=> \E i \in 1..Len(SelectionsReturned) :
             InjectedArgument(result.op) \in Range(SuppliedArguments(SelectionsReturned[i])))

PatchWith(op, sch, sels, defs, d) ==
  IF op = "patchSubscriptionWebhookField"
  THEN patchSubscriptionWebhookField(sch, sels, defs, d)
  ELSE patchSubscriptionWebhookSecretField(sch, sels, defs, d)

\* the subscription the caller began with went through one patcher and then
\* through the other
BothPatched ==
  /\ PatcherCalled
  /\ Len(history) = 1
  /\ history[1] # result.op
  /\ before.definition.operation = "subscription"

\* the definition the caller began with, and the objects there were then
FirstSels == SubSeq(selHeap, 1, Len(defHeap[1].selections[1]))
FirstDefs == <<defHeap[1]>>

\* the two patchers applied to it in the opposite order
OppositeOrder ==
  LET sch == GraphQLSchema(schema)
      one == PatchWith(result.op, sch, FirstSels, FirstDefs, 1)
      two == PatchWith(history[1], sch, one.sels, one.defs, one.ret)
  IN [threw |-> one.threw \/ two.threw,
      definition |-> DefinitionValue(two.sels, two.defs, two.ret)]

WithoutArguments(selection) == [selection EXCEPT !.arguments = None]
DeclarationsOf(definition) ==
  IF definition.variableDefinitions = None THEN {} ELSE Range(definition.variableDefinitions[1])

\* C19: the two patchers applied in one order and in the other give the same
\* selections in the same order, the same set of arguments on each selection
\* and the same set of variable declarations; the second patcher keeps every
\* argument and every declaration of the definition the first returned.
C19_PatchersCommute ==
  BothPatched =>
    /\ ~result.threw
    /\ ~OppositeOrder.threw
    /\ LET here == Returned_
           there == OppositeOrder.definition
           between == before.definition
       IN /\ Len(here.selections[1]) = Len(there.selections[1])
          /\ \A i \in 1..Len(here.selections[1]) :
               /\ WithoutArguments(here.selections[1][i]) = WithoutArguments(there.selections[1][i])
               /\ Range(SuppliedArguments(here.selections[1][i]))
                    = Range(SuppliedArguments(there.selections[1][i]))
               /\ Range(SuppliedArguments(between.selections[1][i]))
                    \subseteq Range(SuppliedArguments(here.selections[1][i]))
          /\ DeclarationsOf(here) = DeclarationsOf(there)
          /\ DeclarationsOf(between) \subseteq DeclarationsOf(here)
          /\ [here EXCEPT !.selections = None, !.variableDefinitions = None]
               = [there EXCEPT !.selections = None, !.variableDefinitions = None]

\* subscription { onItemChanged { id } } patched for the URL, then for the secret
C19_Witness ==
  /\ BothPatched
  /\ history = <<"patchSubscriptionWebhookField">>
  /\ DefinitionValue(FirstSels, FirstDefs, 1).selections =
       Some(<<Field("onItemChanged", UNDEF, None, Some(<<Leaf("id")>>))>>)
  /\ SelectionsReturned =
       <<Field("onItemChanged", UNDEF,
               Some(<<Argument("webhookUrl", Variable("netligraphWebhookUrl")),
                      Argument("secret", Variable("netligraphWebhookSecret"))>>),
               Some(<<Leaf("id")>>))>>
  /\ OppositeOrder.definition.selections[1][1].arguments =
       Some(<<Argument("secret", Variable("netligraphWebhookSecret")),
              Argument("webhookUrl", Variable("netligraphWebhookUrl"))>>)
  /\ DeclarationsOf(Returned_) =
       {VariableDefinition("netligraphWebhookUrl", <<"!", "String">>),
        VariableDefinition("netligraphWebhookSecret", <<"!", "OneGraphSubscriptionSecretInput">>)}

-----------------------------------------------------------------------------
(* Referenced-Type Collector: claims *)

CollectorCalled == result.op = "gatherAllReferencedTypes"

Contains(str, pattern) == indexOf(str, pattern) # 0

\* the names of the types the document refers to: the root type, the types
\* of the fields it selects and of its type conditions
RECURSIVE ReferencedNames(_, _, _)
ReferencedNames(sch, parentType, selections) ==
  UNION {LET type == IF selection.kind = "Field"
                       THEN TypeInfoFieldType(sch, parentType, selection.name)
                     ELSE IF selection.kind = "InlineFragment"
                       THEN typeFromAST(sch, selection.typeCondition)
                     ELSE parentType
         IN (IF type = <<>> THEN {} ELSE {getNamedType(type)[1]})
              \cup (IF selection.selectionSet = None THEN {}
                    ELSE ReferencedNames(sch, getNamedType(type), selection.selectionSet[1]))
         : selection \in Range(selections)}

\* C15: every element the collector returns is the lower-cased name of a type
\* the document refers to, with "oneme" stripped from it: no element holds an
\* upper-case letter or the substring "oneme", and no element occurs twice.
C15_CollectedNamesAreNormalized ==
  CollectorCalled =>
    LET sch == GraphQLSchema(schema)
        names == {"Query"} \cup ReferencedNames(sch, <<"Query">>, before.definition.selections[1])
    IN /\ ~result.threw
       /\ \A i \in 1..Len(result.referenced) :
            LET element == result.referenced[i]
            IN /\ \E name \in names :
                    /\ Len(element) <= Len(name)
                    /\ Contains(toLocaleLowerCase(name), element)
               /\ \A k \in 1..Len(element) : ~IsUpperCase(SubSeq(element, k, k))
               /\ ~Contains(element, "oneme")
       /\ \A i, j \in 1..Len(result.referenced) :
            result.referenced[i] = result.referenced[j] => i = j

====
